---- MODULE Spec2Model ----
(***************************************************************************)
(* A model of model.py: the variational autoencoder, the latent-space      *)
(* interpolation wrapper and the checkpoint save/load plumbing.            *)
(*                                                                         *)
(* Representation.  A tensor is a record [shape, v]: its shape (a tuple of *)
(* naturals) and the value of its elements.  Values are float32 numbers    *)
(* kept as records [k, v]: k = "fin" with v the number in hundredths       *)
(* (1.0 is 100), k = "inf" with v the sign, or k = "nan".  Every tensor of *)
(* the model is uniform (all elements equal), and a Linear layer's weight  *)
(* matrix has the rows (w, 0, ..., 0), so that the layer maps a uniform    *)
(* input x to the uniform output w*x + b.                                  *)
(***************************************************************************)
EXTENDS Integers, Sequences, FiniteSets, TLC

VARIABLES vae, interpolation_model, files, written, pc, last

vars == <<vae, interpolation_model, files, written, pc, last>>

(***************************************************************************)
(* Bounds of the model.                                                    *)
(***************************************************************************)
MaxPixel == 1
MaxNoise == 1
MaxT == 2

(***************************************************************************)
(* float32 arithmetic (IEEE 754: inf * 0 and inf - inf are nan).           *)
(***************************************************************************)
Fin(n) == [k |-> "fin", v |-> n]
PosInf == [k |-> "inf", v |-> 1]
NaN == [k |-> "nan", v |-> 0]
One == Fin(100)
Zero == Fin(0)
Half == Fin(50)

IsFinite(a) == a.k = "fin"

Sign(n) == IF n > 0 THEN 1 ELSE IF n < 0 THEN -1 ELSE 0

FNeg(a) == IF a.k = "nan" THEN NaN ELSE [k |-> a.k, v |-> -a.v]

FAdd(a, b) ==
    IF a.k = "nan" \/ b.k = "nan" THEN NaN
    ELSE IF a.k = "inf" /\ b.k = "inf" THEN (IF a.v = b.v THEN a ELSE NaN)
    ELSE IF a.k = "inf" THEN a
    ELSE IF b.k = "inf" THEN b
    ELSE Fin(a.v + b.v)

FSub(a, b) == FAdd(a, FNeg(b))

FMul(a, b) ==
    IF a.k = "nan" \/ b.k = "nan" THEN NaN
    ELSE IF a.k = "inf" \/ b.k = "inf"
         THEN (IF Sign(a.v) * Sign(b.v) = 0 THEN NaN
               ELSE [k |-> "inf", v |-> Sign(a.v) * Sign(b.v)])
    ELSE Fin((a.v * b.v) \div 100)

\* torch.exp on float32: overflows to inf above 88.72, underflows to 0 below
\* -103.97; in between, the values the model reaches, to two decimals.
Exp(x) ==
    IF x.k = "nan" THEN NaN
    ELSE IF x.k = "inf" THEN (IF x.v > 0 THEN PosInf ELSE Zero)
    ELSE IF x.v >= 8873 THEN PosInf
    ELSE IF x.v <= -10400 THEN Zero
    ELSE CASE x.v = -200 -> Fin(14)
           [] x.v = -150 -> Fin(22)
           [] x.v = -100 -> Fin(37)
           [] x.v = -50 -> Fin(61)
           [] x.v = 0 -> Fin(100)
           [] x.v = 50 -> Fin(165)
           [] x.v = 100 -> Fin(272)
           [] x.v = 150 -> Fin(448)
           [] x.v = 200 -> Fin(739)
           [] x.v = 300 -> Fin(2009)
           [] x.v = 400 -> Fin(5460)

\* nn.ReLU
Relu(x) ==
    IF x.k = "nan" THEN NaN
    ELSE IF x.v < 0 THEN Zero
    ELSE x

\* torch.sigmoid: 1/(1+exp(-x)), left uninterpreted on finite arguments.
Sigmoid(x) ==
    IF x.k = "nan" THEN NaN
    ELSE IF x.k = "inf" THEN (IF x.v > 0 THEN One ELSE Zero)
    ELSE [k |-> "sigmoid", v |-> x.v]

(***************************************************************************)
(* Tensors and shapes.                                                     *)
(***************************************************************************)
Tensor(shape, val) == [shape |-> shape, v |-> val]

NoTensor == Tensor(<<>>, NaN)

\* x.shape[-3:]
Last3(shape) ==
    IF Len(shape) <= 3 THEN shape ELSE SubSeq(shape, Len(shape) - 2, Len(shape))

\* int(math.sqrt(n))
RECURSIVE IntSqrtFrom(_, _)
IntSqrtFrom(n, r) == IF (r + 1) * (r + 1) > n THEN r ELSE IntSqrtFrom(n, r + 1)
IntSqrt(n) == IntSqrtFrom(n, 0)

(***************************************************************************)
(* VariationalAutoencoder                                                  *)
(***************************************************************************)
\* The Linear sub-modules in registration order (__setup_encoder, __setup_decoder).
Layers == <<"enc_fc1", "enc_fc2", "fc_mu", "fc_logvar", "dec_fc1", "dec_fc2", "dec_fc3">>

\* The keys of VariationalAutoencoder.state_dict(), in order.
StateDictKeys ==
    [i \in 1..(2 * Len(Layers)) |->
        IF i % 2 = 1 THEN Layers[(i + 1) \div 2] \o ".weight"
        ELSE Layers[i \div 2] \o ".bias"]

KeySet == {StateDictKeys[i] : i \in DOMAIN StateDictKeys}

\* nn.Linear(in_features, out_features) of each layer.
LayerIn(m, layer) ==
    CASE layer = "enc_fc1" -> m.input_dim
      [] layer \in {"enc_fc2", "fc_mu", "fc_logvar", "dec_fc2", "dec_fc3"} -> m.hidden_dim
      [] layer = "dec_fc1" -> m.latent_dim

LayerOut(m, layer) ==
    CASE layer \in {"enc_fc1", "enc_fc2", "dec_fc1", "dec_fc2"} -> m.hidden_dim
      [] layer \in {"fc_mu", "fc_logvar"} -> m.latent_dim
      [] layer = "dec_fc3" -> m.input_dim

\* The shape of the parameter stored under a state_dict key.
ParamShape(m, key) ==
    LET i == CHOOSE j \in DOMAIN StateDictKeys : StateDictKeys[j] = key
        layer == Layers[(i + 1) \div 2]
    IN IF i % 2 = 1 THEN <<LayerOut(m, layer), LayerIn(m, layer)>>
       ELSE <<LayerOut(m, layer)>>

\* Parameter values: the weight and bias of each layer.
PresetNames == {"plain", "spread", "hot"}

PresetValue(preset, key) ==
    CASE preset = "plain" ->
            (IF key \in {"fc_logvar.weight"} THEN Zero
             ELSE IF key = "fc_mu.bias" THEN One
             ELSE IF key \in {"enc_fc1.weight", "enc_fc2.weight", "fc_mu.weight",
                              "dec_fc1.weight", "dec_fc2.weight", "dec_fc3.weight"}
                  THEN One
             ELSE Zero)
      [] preset = "spread" ->
            (IF key \in {"enc_fc1.weight", "enc_fc2.weight", "fc_mu.weight",
                         "fc_logvar.weight", "dec_fc1.weight", "dec_fc2.weight",
                         "dec_fc3.weight"}
             THEN One
             ELSE IF key = "dec_fc3.bias" THEN FNeg(One)
             ELSE Zero)
      [] preset = "hot" ->
            (IF key = "fc_logvar.weight" THEN Fin(20000)
             ELSE IF key \in {"enc_fc1.weight", "enc_fc2.weight", "fc_mu.weight",
                              "dec_fc1.weight", "dec_fc2.weight", "dec_fc3.weight"}
                  THEN One
             ELSE Zero)

\* VariationalAutoencoder.__init__: the dimensions, the image size derived from
\* input_dim, and freshly initialised layers (their values: a preset).
VariationalAutoencoder(input_dim, hidden_dim, latent_dim, preset) ==
    LET dims == [input_dim |-> input_dim, hidden_dim |-> hidden_dim,
                 latent_dim |-> latent_dim]
    IN [input_dim |-> input_dim,
        hidden_dim |-> hidden_dim,
        latent_dim |-> latent_dim,
        image_width |-> IntSqrt(input_dim),
        image_height |-> IntSqrt(input_dim),
        params |-> [key \in KeySet |->
                      Tensor(ParamShape(dims, key), PresetValue(preset, key))]]

MNIST_VAE(preset) == VariationalAutoencoder(1 * 28 * 28, 400, 200, preset)

\* layer(x) for a uniform input of value x.
Linear(m, layer, x) ==
    FAdd(FMul(m.params[layer \o ".weight"].v, x), m.params[layer \o ".bias"].v)

\* A faulty variant of Flatten: the pattern '(b c) (h w)'.
FlattenRows(shape) == <<shape[1] * shape[2], shape[3] * shape[4]>>

\* rearrange(x, 'b c h w -> b (c h w)') on a shape of 4 dimensions
Flatten(shape) == <<shape[1], shape[2] * shape[3] * shape[4]>>

\* encode: the rearrange needs 4 dimensions (EinopsError otherwise); enc_fc1
\* needs a flattened size of input_dim (RuntimeError otherwise).
Encode(m, x) ==
    IF Len(x.shape) # 4
    THEN [err |-> "EinopsError", mean |-> NoTensor, log_var |-> NoTensor]
    ELSE IF Flatten(x.shape)[2] # m.input_dim
    THEN [err |-> "RuntimeError", mean |-> NoTensor, log_var |-> NoTensor]
    ELSE LET h1 == Relu(Linear(m, "enc_fc1", x.v))
             h2 == Relu(Linear(m, "enc_fc2", h1))
             shape == <<Flatten(x.shape)[1], m.latent_dim>>
         IN [err |-> "ok",
             mean |-> Tensor(shape, Linear(m, "fc_mu", h2)),
             log_var |-> Tensor(shape, Linear(m, "fc_logvar", h2))]

\* decode: dec_fc1 needs a last dimension of latent_dim; rearrange
\* 'b (c h w) -> b c h w' with c=1, h=image_width, w=image_height needs 2
\* dimensions and input_dim = 1 * image_width * image_height.
Decode(m, latent) ==
    IF Len(latent.shape) = 0 \/ latent.shape[Len(latent.shape)] # m.latent_dim
    THEN [err |-> "RuntimeError", x_hat |-> NoTensor]
    ELSE IF Len(latent.shape) # 2 \/ m.input_dim # 1 * m.image_width * m.image_height
    THEN [err |-> "EinopsError", x_hat |-> NoTensor]
    ELSE LET x1 == Relu(Linear(m, "dec_fc1", latent.v))
             x2 == Relu(Linear(m, "dec_fc2", x1))
             x3 == Sigmoid(Linear(m, "dec_fc3", x2))
         IN [err |-> "ok",
             x_hat |-> Tensor(<<latent.shape[1], 1, m.image_width, m.image_height>>, x3)]

\* A faulty variant of reparameterization: the two arguments exchanged.
ReparameterizationSwapped(mean, var, epsilon) ==
    Tensor(var.shape, FAdd(var.v, FMul(mean.v, epsilon)))

\* reparameterization: z = mean + var * epsilon, epsilon the noise drawn by
\* torch.randn_like(var).
Reparameterization(mean, var, epsilon) ==
    Tensor(var.shape, FAdd(mean.v, FMul(var.v, epsilon)))

\* The second argument forward passes to reparameterization: torch.exp(0.5 * log_var).
ForwardStd(log_var) == Tensor(log_var.shape, Exp(FMul(Half, log_var.v)))

\* A faulty variant of forward's assertion: the channel is not checked.
ForwardShapeOKLoose(x) ==
    /\ Len(x.shape) >= 2
    /\ SubSeq(x.shape, Len(x.shape) - 1, Len(x.shape)) = <<28, 28>>

\* forward's assertion: x.shape[-3:] == (1, 28, 28).
ForwardShapeOK(x) == Last3(x.shape) = <<1, 28, 28>>

\* A call's record: what it was given, what it drew and ran, what it returned.
Call(op) ==
    [op |-> op, target |-> "", path |-> "", args |-> <<>>, t |-> Zero,
     err |-> "ok", steps |-> <<>>, noise |-> <<>>, stds |-> <<>>,
     dist |-> <<>>, out |-> NoTensor]

\* VariationalAutoencoder.forward(x), with epsilon the noise it draws.
Forward(m, x, epsilon) ==
    LET c == [Call("forward") EXCEPT !.args = <<x>>]
    IN IF ~ForwardShapeOK(x)
       THEN [c EXCEPT !.err = "AssertionError"]
       ELSE LET enc == Encode(m, x)
            IN IF enc.err # "ok"
               THEN [c EXCEPT !.err = enc.err, !.steps = <<"encode">>]
               ELSE LET std == ForwardStd(enc.log_var)
                        z == Reparameterization(enc.mean, std, epsilon)
                        dec == Decode(m, z)
                    IN [c EXCEPT !.err = dec.err,
                                 !.steps = <<"encode", "reparameterization", "decode">>,
                                 !.noise = <<epsilon>>,
                                 !.stds = <<std>>,
                                 !.dist = <<enc>>,
                                 !.out = dec.x_hat]

(***************************************************************************)
(* InterpolationModel                                                      *)
(***************************************************************************)
\* A faulty variant of the assertions: only the last three dimensions are checked.
InterpShapeOKLoose(img) == Last3(img.shape) = <<1, 28, 28>>

\* The assertions of InterpolationModel.forward: shape == (1, 28, 28).
InterpShapeOK(img) == img.shape = <<1, 28, 28>>

\* rearrange 'c h w -> 1 c h w'
AddBatch(img) == Tensor(<<1>> \o img.shape, img.v)

\* tensor.squeeze(0)
Squeeze0(x) ==
    IF Len(x.shape) > 0 /\ x.shape[1] = 1 THEN Tensor(Tail(x.shape), x.v) ELSE x

\* The second argument InterpolationModel.forward passes to reparameterization.
InterpStd(log_var) == Tensor(log_var.shape, Exp(FMul(Half, log_var.v)))

\* A faulty variant of the blend: the two weights exchanged.
BlendSwapped(t, z1, z2) ==
    Tensor(z1.shape, FAdd(FMul(t, z1.v), FMul(FSub(One, t), z2.v)))

\* latent_vector = (1 - interpolation) * z1 + interpolation * z2
Blend(t, z1, z2) ==
    Tensor(z1.shape, FAdd(FMul(FSub(One, t), z1.v), FMul(t, z2.v)))

\* InterpolationModel.forward(input_img1, input_img2, interpolation), with e1 and
\* e2 the noise of its first and second draw.
InterpolationForward(m, img1, img2, t, e1, e2) ==
    LET c == [Call("interpolate") EXCEPT !.args = <<img1, img2>>, !.t = t]
    IN IF ~InterpShapeOK(img1) \/ ~InterpShapeOK(img2)
       THEN [c EXCEPT !.err = "AssertionError"]
       ELSE LET enc1 == Encode(m, AddBatch(img1))
                enc2 == Encode(m, AddBatch(img2))
            IN IF enc1.err # "ok"
               THEN [c EXCEPT !.err = enc1.err, !.steps = <<"encode">>]
               ELSE IF enc2.err # "ok"
               THEN [c EXCEPT !.err = enc2.err, !.steps = <<"encode", "encode">>,
                              !.dist = <<enc1>>]
               ELSE LET std1 == InterpStd(enc1.log_var)
                        std2 == InterpStd(enc2.log_var)
                        z1 == Reparameterization(enc1.mean, std1, e1)
                        z2 == Reparameterization(enc2.mean, std2, e2)
                        dec == Decode(m, Blend(t, z1, z2))
                    IN [c EXCEPT !.err = dec.err,
                                 !.steps = <<"encode", "encode", "reparameterization",
                                             "reparameterization", "decode">>,
                                 !.noise = <<e1, e2>>,
                                 !.stds = <<std1, std2>>,
                                 !.dist = <<enc1, enc2>>,
                                 !.out = IF dec.err = "ok" THEN Squeeze0(dec.x_hat)
                                         ELSE NoTensor]

(***************************************************************************)
(* Checkpoints.  A checkpoint file holds a state_dict: a sequence of items *)
(* [k, t], key and tensor, in the order they were stored.                  *)
(***************************************************************************)
Item(key, tensor) == [k |-> key, t |-> tensor]

NoFile == [exists |-> FALSE, items |-> <<>>]
File(items) == [exists |-> TRUE, items |-> items]

\* VariationalAutoencoder.state_dict()
VAEStateDict(m) ==
    [i \in DOMAIN StateDictKeys |-> Item(StateDictKeys[i], m.params[StateDictKeys[i]])]

\* A faulty variant of the wrapper's state_dict: the keys of the VAE alone.
InterpStateDictBare(im) ==
    [i \in DOMAIN StateDictKeys |-> Item(StateDictKeys[i], im.vae.params[StateDictKeys[i]])]

\* InterpolationModel.state_dict(): the sub-module self.vae prefixes its keys.
InterpStateDict(im) ==
    [i \in DOMAIN StateDictKeys |->
        Item("vae." \o StateDictKeys[i], im.vae.params[StateDictKeys[i]])]

\* A faulty variant of the renaming: k.lstrip("vae."), which drops every leading
\* character among v, a, e and the dot.
RECURSIVE StripVaeLeading(_)
StripVaeLeading(key) ==
    IF Len(key) = 0 THEN key
    ELSE IF SubSeq(key, 1, 1) \in {"v", "a", "e", "."}
    THEN StripVaeLeading(SubSeq(key, 2, Len(key)))
    ELSE key

\* k.replace("vae.", ""): every non-overlapping occurrence, left to right.
RECURSIVE StripVae(_)
StripVae(key) ==
    IF Len(key) < 4 THEN key
    ELSE IF SubSeq(key, 1, 4) = "vae." THEN StripVae(SubSeq(key, 5, Len(key)))
    ELSE SubSeq(key, 1, 1) \o StripVae(SubSeq(key, 2, Len(key)))

Keys(items) == {items[i].k : i \in DOMAIN items}

\* The dict built from (key, value) pairs in order: a later pair replaces an
\* earlier one with the same key.
AsDict(pairs) ==
    [key \in Keys(pairs) |->
        LET i == CHOOSE j \in DOMAIN pairs :
                    /\ pairs[j].k = key
                    /\ \A l \in DOMAIN pairs : pairs[l].k = key => l <= j
        IN pairs[i].t]

\* new_state_dict = {k.replace("vae.", ""): v for k, v in state_dict.items()}
NewStateDict(items) ==
    AsDict([i \in DOMAIN items |-> Item(StripVae(items[i].k), items[i].t)])

\* Module.load_state_dict (strict): no missing key, no unexpected key, and
\* every tensor of the parameter's shape.
LoadStateDictOK(m, prefix, dict) ==
    /\ DOMAIN dict = {prefix \o key : key \in KeySet}
    /\ \A key \in KeySet : dict[prefix \o key].shape = ParamShape(m, key)

LoadStateDict(m, prefix, dict) ==
    [m EXCEPT !.params = [key \in KeySet |-> dict[prefix \o key]]]

\* No wrapper has been constructed.
NoModel == [built |-> FALSE, vae |-> VariationalAutoencoder(0, 0, 0, "plain")]

\* InterpolationModel.__init__
InterpolationModel(vae_model) == [built |-> TRUE, vae |-> vae_model]

\* MNISTInterpolationModel.__init__(vae_model_path), with the values the fresh
\* MNIST_VAE is initialised to.
MNISTInterpolationModel(vae_model_path, preset) ==
    LET my_vae == MNIST_VAE(preset)
        state_dict == files[vae_model_path]
    IN IF ~state_dict.exists
       THEN [err |-> "FileNotFoundError", model |-> NoModel]
       ELSE LET new_state_dict == NewStateDict(state_dict.items)
            IN IF ~LoadStateDictOK(my_vae, "", new_state_dict)
               THEN [err |-> "RuntimeError", model |-> NoModel]
               ELSE [err |-> "ok",
                     model |-> InterpolationModel(LoadStateDict(my_vae, "", new_state_dict))]

(***************************************************************************)
(* Inputs.                                                                 *)
(***************************************************************************)
Pixels == {Fin(100 * i) : i \in 0..MaxPixel}
Noise == {Fin(100 * i) : i \in (-MaxNoise)..MaxNoise}
Ts == {Fin(100 * i) : i \in (-1)..MaxT} \cup {NaN}

ValidImage == <<1, 28, 28>>

\* Images given to InterpolationModel.forward.
Images ==
    {Tensor(ValidImage, p) : p \in Pixels}
        \cup {Tensor(sh, Zero) : sh \in {<<1, 1, 28, 28>>, <<3, 28, 28>>,
                                         <<1, 32, 32>>, <<28, 28>>}}

\* Inputs given to encode and to VariationalAutoencoder.forward.
BatchShapes ==
    {<<1, 1, 28, 28>>, <<2, 1, 28, 28>>, <<1, 3, 28, 28>>, <<1, 1, 32, 32>>,
     <<1, 4, 14, 14>>, <<2, 1, 16, 49>>, <<1, 28, 28>>, <<3, 28, 28>>,
     <<1, 32, 32>>, <<28, 28>>, <<1, 1, 3, 3>>, <<2, 1, 2, 2>>, <<1, 1, 2, 5>>,
     <<1, 9, 1, 1>>, <<1, 2, 1, 2>>}

Batches == {Tensor(sh, p) : sh \in BatchShapes, p \in Pixels}

\* Latent vectors given to decode.
Latents(m) ==
    {Tensor(sh, p) : sh \in {<<1, m.latent_dim>>, <<2, m.latent_dim>>,
                             <<1, m.latent_dim + 1>>, <<m.latent_dim>>},
                     p \in {Zero, One, NaN}}

\* Arguments given to reparameterization.
Means == {Zero, One, FNeg(One), PosInf, NaN}
Vars == {Zero, One, Fin(165), PosInf, NaN}

\* Dimensions given to VariationalAutoencoder.__init__.
MaxInputDim == 10
InputDims == (1..MaxInputDim) \cup {1 * 28 * 28}
HiddenDims == {2, 400}
LatentDims == {1, 200}

\* Checkpoint files found on disk.
Standalone(preset) == VAEStateDict(MNIST_VAE(preset))

Prefixed(items) == [i \in DOMAIN items |-> Item("vae." \o items[i].k, items[i].t)]

Rekeyed(items, i, key) == [items EXCEPT ![i] = Item(key, items[i].t)]

Malformed ==
    LET s == Standalone("spread")
        other == Tensor(<<400, 784>>, Fin(200))
    IN {SubSeq(s, 1, Len(s) - 1),
        Append(s, Item("extra.weight", other)),
        Rekeyed(s, 1, "vae.vae.enc_fc1.weight"),
        Rekeyed(Prefixed(s), 1, "vae.vae.enc_fc1.weight"),
        Rekeyed(s, 1, "enc_fc1.vae.weight"),
        Append(Prefixed(s), Item("enc_fc1.weight", other)),
        <<Item("enc_fc1.weight", other)>> \o Prefixed(s),
        [s EXCEPT ![1] = Item("enc_fc1.weight", Tensor(<<784, 400>>, One))]}

VaeFiles ==
    {File(Standalone(p)) : p \in PresetNames}
        \cup {File(Prefixed(Standalone("hot")))}
        \cup {File(items) : items \in Malformed}
        \cup {NoFile}

InterpFiles == {NoFile, File(Prefixed(Standalone("plain")))}

Paths == {"vae_model.pth", "interpolation_model.pth"}

(***************************************************************************)
(* The state machine.                                                      *)
(***************************************************************************)
Init ==
    /\ vae = MNIST_VAE("plain")
    /\ interpolation_model = NoModel
    /\ files \in [Paths -> VaeFiles \cup InterpFiles]
    /\ files["vae_model.pth"] \in VaeFiles
    /\ files["interpolation_model.pth"] \in InterpFiles
    /\ written = {}
    /\ pc = "start"
    /\ last = Call("none")

Targets == {"vae", "interpolation_model.vae"}

Target(tgt) == IF tgt = "vae" THEN vae ELSE interpolation_model.vae

HasTarget(tgt) == tgt = "vae" \/ interpolation_model.built

\* The program is single-threaded and its calls are synchronous: a call starts
\* when no other is in progress, and ends when it returns or raises to its caller.
Idle == last.op = "none"

Return ==
    /\ ~Idle
    /\ last' = Call("none")
    /\ UNCHANGED <<vae, interpolation_model, files, written, pc>>

\* vae = VariationalAutoencoder(input_dim, hidden_dim, latent_dim)
VAEInit ==
    /\ Idle
    /\ \E input_dim \in InputDims, hidden_dim \in HiddenDims, latent_dim \in LatentDims,
          preset \in PresetNames :
          vae' = VariationalAutoencoder(input_dim, hidden_dim, latent_dim, preset)
    /\ last' = [Call("init") EXCEPT !.target = "vae"]
    /\ UNCHANGED <<interpolation_model, files, written, pc>>

\* target.encode(x)
VAEEncode ==
    /\ Idle
    /\ \E tgt \in Targets, x \in Batches :
          /\ HasTarget(tgt)
          /\ LET enc == Encode(Target(tgt), x)
             IN last' = [Call("encode") EXCEPT !.target = tgt, !.args = <<x>>,
                                               !.err = enc.err, !.steps = <<"encode">>,
                                               !.dist = <<enc>>]
    /\ UNCHANGED <<vae, interpolation_model, files, written, pc>>

\* target.decode(latent)
VAEDecode ==
    /\ Idle
    /\ \E tgt \in Targets :
          /\ HasTarget(tgt)
          /\ \E latent \in Latents(Target(tgt)) :
                LET dec == Decode(Target(tgt), latent)
                IN last' = [Call("decode") EXCEPT !.target = tgt, !.args = <<latent>>,
                                                  !.err = dec.err, !.steps = <<"decode">>,
                                                  !.out = dec.x_hat]
    /\ UNCHANGED <<vae, interpolation_model, files, written, pc>>

\* target.reparameterization(mean, var), with epsilon the noise it draws
VAEReparameterization ==
    /\ Idle
    /\ \E tgt \in Targets, mean \in Means, var \in Vars, epsilon \in Noise :
          /\ HasTarget(tgt)
          /\ LET shape == <<1, Target(tgt).latent_dim>>
             IN last' = [Call("reparameterization") EXCEPT
                            !.target = tgt,
                            !.args = <<Tensor(shape, mean), Tensor(shape, var)>>,
                            !.steps = <<"reparameterization">>,
                            !.noise = <<epsilon>>,
                            !.out = Reparameterization(Tensor(shape, mean),
                                                       Tensor(shape, var), epsilon)]
    /\ UNCHANGED <<vae, interpolation_model, files, written, pc>>

\* A faulty variant of forward: the call also moves a parameter of its target.
VAEForwardTraining ==
    /\ Idle
    /\ \E x \in Batches, epsilon \in Noise :
          last' = [Forward(vae, x, epsilon) EXCEPT !.target = "vae"]
    /\ vae' = [vae EXCEPT !.params["enc_fc1.bias"].v = One]
    /\ UNCHANGED <<interpolation_model, files, written, pc>>

\* target.forward(x), with epsilon the noise it draws
VAEForward ==
    /\ Idle
    /\ \E tgt \in Targets, x \in Batches, epsilon \in Noise :
          /\ HasTarget(tgt)
          /\ last' = [Forward(Target(tgt), x, epsilon) EXCEPT !.target = tgt]
    /\ UNCHANGED <<vae, interpolation_model, files, written, pc>>

\* interpolation_model.forward(input_img1, input_img2, interpolation), with e1
\* and e2 the noise it draws
Interpolate ==
    /\ Idle
    /\ interpolation_model.built
    /\ \E img1 \in Images, img2 \in Images, t \in Ts, e1 \in Noise, e2 \in Noise :
          last' = [InterpolationForward(interpolation_model.vae, img1, img2, t, e1, e2)
                      EXCEPT !.target = "interpolation_model"]
    /\ UNCHANGED <<vae, interpolation_model, files, written, pc>>

\* interpolation_model = MNISTInterpolationModel(path)
NewModel ==
    /\ Idle
    /\ \E path \in Paths, preset \in PresetNames :
          LET r == MNISTInterpolationModel(path, preset)
          IN /\ interpolation_model' =
                    IF r.err = "ok" THEN r.model ELSE interpolation_model
             /\ last' = [Call("construct") EXCEPT !.path = path, !.err = r.err]
    /\ UNCHANGED <<vae, files, written, pc>>

\* __main__: save_interpolation_model()
SaveInterpolationModel ==
    /\ Idle
    /\ pc = "start"
    /\ \E preset \in PresetNames :
          LET r == MNISTInterpolationModel("vae_model.pth", preset)
          IN IF r.err # "ok"
             THEN /\ pc' = "save_failed"
                  /\ last' = [Call("save") EXCEPT !.path = "vae_model.pth",
                                                  !.err = r.err]
                  /\ UNCHANGED <<interpolation_model, files, written>>
             ELSE /\ files' = [files EXCEPT !["interpolation_model.pth"] =
                                               File(InterpStateDict(r.model))]
                  /\ written' = written \cup {"interpolation_model.pth"}
                  /\ interpolation_model' = r.model
                  /\ pc' = "saved"
                  /\ last' = [Call("save") EXCEPT !.path = "interpolation_model.pth"]
    /\ UNCHANGED vae

\* __main__: load_interpolation_model()
LoadInterpolationModel ==
    /\ Idle
    /\ pc = "saved"
    /\ \E preset \in PresetNames :
          LET r == MNISTInterpolationModel("vae_model.pth", preset)
              f == files["interpolation_model.pth"]
              c == [Call("load") EXCEPT !.path = "interpolation_model.pth"]
          IN IF r.err # "ok"
             THEN /\ pc' = "load_failed"
                  /\ last' = [c EXCEPT !.path = "vae_model.pth", !.err = r.err]
                  /\ UNCHANGED interpolation_model
             ELSE IF ~f.exists
             THEN /\ pc' = "load_failed"
                  /\ last' = [c EXCEPT !.err = "FileNotFoundError"]
                  /\ UNCHANGED interpolation_model
             ELSE IF ~LoadStateDictOK(r.model.vae, "vae.", AsDict(f.items))
             THEN /\ pc' = "load_failed"
                  /\ last' = [c EXCEPT !.err = "RuntimeError"]
                  /\ UNCHANGED interpolation_model
             ELSE /\ pc' = "done"
                  /\ last' = c
                  /\ interpolation_model' =
                        InterpolationModel(
                            LoadStateDict(r.model.vae, "vae.", AsDict(f.items)))
    /\ UNCHANGED <<vae, files, written>>

Next ==
    \/ VAEEncode
    \/ VAEDecode
    \/ VAEReparameterization
    \/ VAEForward
    \/ Interpolate
    \/ NewModel
    \/ SaveInterpolationModel
    \/ LoadInterpolationModel
    \/ Return

Spec == Init /\ [][Next]_vars

\* The standalone autoencoder alone: construction with any dimensions and
\* inference on the instance, with no checkpoint on disk.
InitVAE ==
    /\ vae = MNIST_VAE("plain")
    /\ interpolation_model = NoModel
    /\ files = [path \in Paths |-> NoFile]
    /\ written = {}
    /\ pc = "start"
    /\ last = Call("none")

NextVAE ==
    \/ VAEInit
    \/ VAEEncode
    \/ VAEDecode
    \/ VAEReparameterization
    \/ VAEForward
    \/ Return

SpecVAE == InitVAE /\ [][NextVAE]_vars

(***************************************************************************)
(* Properties.                                                             *)
(***************************************************************************)
\* The last three dimensions of a shape are exactly (1, 28, 28).
EndsInImage(shape) ==
    LET n == Len(shape)
    IN n >= 3 /\ shape[n - 2] = 1 /\ shape[n - 1] = 28 /\ shape[n] = 28

\* C1: VariationalAutoencoder.forward on an input whose last three dimensions
\* are not (1, 28, 28) fails on the shape assertion and computes nothing: no
\* encode, no noise drawn, no decode.
C1_ForwardRejectsShape ==
    (last.op = "forward" /\ ~EndsInImage(last.args[1].shape))
        => /\ last.err = "AssertionError"
           /\ last.steps = <<>>
           /\ last.noise = <<>>
           /\ last.out = NoTensor

C1_Witness ==
    /\ last.op = "forward"
    /\ last.args[1].shape \in {<<3, 28, 28>>, <<1, 1, 32, 32>>}
    /\ last.err = "AssertionError"
    /\ vae.input_dim = 784

\* C7 as stated: encode on a 4-dimensional batch (b, c, h, w) succeeds exactly
\* when (c, h, w) is the configured (1, image_height, image_width).
C7_EncodeChecksImageDims ==
    (last.op = "encode" /\ Len(last.args[1].shape) = 4)
        => (last.err = "ok"
              <=> SubSeq(last.args[1].shape, 2, 4)
                     = <<1, vae.image_height, vae.image_width>>)

\* C7, amended: encode on a 4-dimensional batch (b, c, h, w) fails, with the
\* Linear layer's shape error, exactly when c*h*w differs from input_dim; a
\* batch such as (b, 4, 14, 14) with c*h*w = input_dim is flattened and encoded.
C7_EncodeChecksFlatSize ==
    (last.op = "encode" /\ Len(last.args[1].shape) = 4)
        => LET sh == last.args[1].shape
           IN /\ last.err = "ok" <=> sh[2] * sh[3] * sh[4] = vae.input_dim
              /\ last.err # "ok" => last.err = "RuntimeError"
              /\ last.err = "ok" =>
                    /\ last.dist[1].mean.shape = <<sh[1], vae.latent_dim>>
                    /\ last.dist[1].log_var.shape = <<sh[1], vae.latent_dim>>

C7_Witness ==
    /\ last.op = "encode"
    /\ last.args[1].shape = <<1, 4, 14, 14>>
    /\ vae.input_dim = 784
    /\ last.err = "ok"

\* C8 as stated: every constructed VariationalAutoencoder has
\* input_dim = image_width * image_height * 1.
C8_InputDimIsImageSize ==
    vae.input_dim = vae.image_width * vae.image_height * 1

\* C2: InterpolationModel.forward proceeds exactly when both images have the
\* shape (1, 28, 28); otherwise it fails on an assertion before any encode and
\* before any noise is drawn, whatever t is; and no value of t makes it fail.
C2_InterpolateChecksShapes ==
    last.op = "interpolate"
        => LET valid == /\ last.args[1].shape = <<1, 28, 28>>
                        /\ last.args[2].shape = <<1, 28, 28>>
           IN /\ valid => last.err = "ok"
              /\ ~valid => /\ last.err = "AssertionError"
                           /\ last.steps = <<>>
                           /\ last.noise = <<>>
                           /\ last.dist = <<>>
                           /\ last.out = NoTensor

C2_Witness ==
    /\ last.op = "interpolate"
    /\ last.args[1].shape = <<1, 28, 28>>
    /\ last.args[2].shape = <<1, 1, 28, 28>>
    /\ last.t = Fin(200)
    /\ last.err = "AssertionError"

\* decode(reparameterize(encode(img))) with the batch dimension removed, the
\* noise pinned to epsilon: the reconstruction VariationalAutoencoder.forward
\* returns for the image.
Reconstruction(m, img, epsilon) == Squeeze0(Forward(m, AddBatch(img), epsilon).out)

\* The latent vector sampled for the i-th image of the last interpolation.
Sampled(i) == Reparameterization(last.dist[i].mean, last.stds[i], last.noise[i])

\* C3 as stated: with the noise pinned, the interpolation at t = 0 is the
\* reconstruction of img1 under the first draw, and at t = 1 the reconstruction
\* of img2 under the second draw.
C3_EndpointsAreReconstructions ==
    (last.op = "interpolate" /\ last.err = "ok")
        => /\ last.t = Zero =>
                last.out = Reconstruction(interpolation_model.vae, last.args[1],
                                          last.noise[1])
           /\ last.t = One =>
                last.out = Reconstruction(interpolation_model.vae, last.args[2],
                                          last.noise[2])

\* C3, amended: the same, provided both sampled latent vectors z1 and z2 are
\* finite (0 * z is nan for an infinite or nan z, and then the result is nan).
C3_FiniteEndpointsAreReconstructions ==
    (/\ last.op = "interpolate"
     /\ last.err = "ok"
     /\ IsFinite(Sampled(1).v)
     /\ IsFinite(Sampled(2).v))
        => /\ last.t = Zero =>
                last.out = Reconstruction(interpolation_model.vae, last.args[1],
                                          last.noise[1])
           /\ last.t = One =>
                last.out = Reconstruction(interpolation_model.vae, last.args[2],
                                          last.noise[2])

C3_Witness ==
    /\ last.op = "interpolate"
    /\ last.err = "ok"
    /\ last.t = Zero
    /\ IsFinite(Sampled(1).v)
    /\ IsFinite(Sampled(2).v)
    /\ Sampled(1) # Sampled(2)
    /\ last.out = Reconstruction(interpolation_model.vae, last.args[1], last.noise[1])
    /\ last.out # Reconstruction(interpolation_model.vae, last.args[2], last.noise[2])

PrefixedKeySet == {"vae." \o key : key \in KeySet}

\* The file holds a checkpoint in the standalone namespace: one tensor of the
\* parameter's shape under each parameter key of the VAE.
IsStandalone(f) ==
    /\ f.exists
    /\ Keys(f.items) = KeySet
    /\ Len(f.items) = Cardinality(KeySet)
    /\ \A i \in DOMAIN f.items :
          f.items[i].t.shape = ParamShape(MNIST_VAE("plain"), f.items[i].k)

\* The file holds a composed checkpoint: the same under "vae." + key.
IsComposed(f) ==
    /\ f.exists
    /\ Keys(f.items) = PrefixedKeySet
    /\ Len(f.items) = Cardinality(KeySet)
    /\ \A i \in DOMAIN f.items : \A key \in KeySet :
          f.items[i].k = "vae." \o key
              => f.items[i].t.shape = ParamShape(MNIST_VAE("plain"), key)

\* C4: with a standalone checkpoint in vae_model.pth, the program's entry
\* sequence (save, then load) writes to interpolation_model.pth exactly the
\* keys "vae." + k, each with the standalone checkpoint's value for k; the load
\* that follows succeeds and leaves every parameter of the wrapper equal to the
\* standalone checkpoint's value; vae_model.pth is never written.
C4_SaveLoadRoundTrip ==
    LET standalone == files["vae_model.pth"]
        composed == files["interpolation_model.pth"]
    IN /\ "vae_model.pth" \notin written
       /\ pc # "load_failed"
       /\ (pc \in {"saved", "done"} /\ IsStandalone(standalone)) =>
             /\ composed.exists
             /\ Len(composed.items) = Len(standalone.items)
             /\ Keys(composed.items) = {"vae." \o standalone.items[i].k :
                                           i \in DOMAIN standalone.items}
             /\ \A i \in DOMAIN standalone.items : \A j \in DOMAIN composed.items :
                   composed.items[j].k = "vae." \o standalone.items[i].k
                       => composed.items[j].t = standalone.items[i].t
       /\ (pc = "done" /\ last.op = "load" /\ IsStandalone(standalone)) =>
             /\ last.err = "ok"
             /\ interpolation_model.built
             /\ \A i \in DOMAIN standalone.items :
                   interpolation_model.vae.params[standalone.items[i].k]
                       = standalone.items[i].t

C4_Witness ==
    /\ pc = "done"
    /\ last.op = "load"
    /\ files["vae_model.pth"] = File(Standalone("spread"))
    /\ interpolation_model.vae.params["dec_fc3.bias"].v = FNeg(One)

\* C5: a composed checkpoint, with the keys "vae." + k, loads into a fresh
\* standalone VAE with every parameter k carrying the value stored under
\* "vae." + k; a checkpoint in the standalone namespace is left as it is by the
\* renaming and loads with every value under its own key; renaming the renamed
\* keys again changes nothing.
C5_PrefixStripping ==
    last.op = "construct" =>
        LET f == files[last.path]
        IN /\ IsStandalone(f) => NewStateDict(f.items) = AsDict(f.items)
           /\ (IsStandalone(f) \/ IsComposed(f)) =>
                 /\ DOMAIN NewStateDict(f.items) = KeySet
                 /\ \A i \in DOMAIN f.items :
                       StripVae(StripVae(f.items[i].k)) = StripVae(f.items[i].k)
                 /\ last.err = "ok"
                 /\ interpolation_model.built
           /\ IsComposed(f) =>
                 \A key \in KeySet : \A i \in DOMAIN f.items :
                    f.items[i].k = "vae." \o key
                        => interpolation_model.vae.params[key] = f.items[i].t
           /\ IsStandalone(f) =>
                 \A i \in DOMAIN f.items :
                    interpolation_model.vae.params[f.items[i].k] = f.items[i].t

C5_Witness ==
    /\ last.op = "construct"
    /\ last.path = "vae_model.pth"
    /\ files["vae_model.pth"] = File(Prefixed(Standalone("hot")))
    /\ last.err = "ok"
    /\ interpolation_model.vae.params["fc_logvar.weight"].v = Fin(20000)

\* C6 as stated: constructing MNISTInterpolationModel from a checkpoint whose
\* key set is neither the standalone key set nor the "vae."-prefixed key set
\* raises an error.
C6_ForeignKeysRejected ==
    (/\ last.op = "construct"
     /\ files[last.path].exists
     /\ Keys(files[last.path].items) \notin {KeySet, PrefixedKeySet})
        => last.err # "ok"

InferenceOps == {"encode", "decode", "reparameterization", "forward", "interpolate"}

\* The values a checkpoint load gives the wrapper's VAE in the step that ends
\* with the call `call`: the renamed mapping of the file the constructor reads,
\* or, for load_interpolation_model, the composed file's value under "vae." + key.
LoadedValue(call, key) ==
    CASE call.op = "construct" -> NewStateDict(files[call.path].items)[key]
      [] call.op = "save" -> NewStateDict(files["vae_model.pth"].items)[key]
      [] call.op = "load" ->
            AsDict(files["interpolation_model.pth"].items)["vae." \o key]

\* C9: no call of encode, decode, reparameterization or either forward, failing
\* or not, changes a weight or bias (or anything but the call's own result);
\* the parameters change only in a step that loads a checkpoint, and then every
\* one of them takes the checkpoint's value.
C9_InferenceFrame ==
    [][/\ last'.op \in InferenceOps
            => /\ vae' = vae
               /\ interpolation_model' = interpolation_model
               /\ files' = files
       /\ vae'.params = vae.params
       /\ interpolation_model'.vae.params # interpolation_model.vae.params
            => /\ last'.op \in {"construct", "save", "load"}
               /\ last'.err = "ok"
               /\ \A key \in KeySet :
                     interpolation_model'.vae.params[key] = LoadedValue(last', key)]_vars

C9_Witness ==
    /\ last.op = "forward"
    /\ last.target = "interpolation_model.vae"
    /\ last.err = "ok"
    /\ pc = "done"

\* C10 as stated: reparameterization returns mean + var * noise, its second
\* argument used as it is; with the noise pinned to zero the result is the
\* mean, for every mean and every second argument; and both forward methods
\* pass exp(0.5 * log_var) as the second argument.
C10_ZeroNoiseGivesMean ==
    /\ last.op = "reparameterization" =>
          LET mean == last.args[1].v
              var == last.args[2].v
              epsilon == last.noise[1]
          IN /\ (IsFinite(mean) /\ IsFinite(var)) =>
                    last.out.v = Fin(mean.v + (var.v * epsilon.v) \div 100)
             /\ epsilon = Zero => last.out.v = mean
    /\ (last.op \in {"forward", "interpolate"}) =>
          \A i \in DOMAIN last.stds :
             last.stds[i].v = Exp(FMul(Half, last.dist[i].log_var.v))

\* C10, amended: the same, except that with the noise pinned to zero the
\* result is the mean for every finite second argument and every mean other
\* than nan; with an infinite or nan second argument the result is nan.
C10_ZeroNoiseGivesMeanIfFinite ==
    /\ last.op = "reparameterization" =>
          LET mean == last.args[1].v
              var == last.args[2].v
              epsilon == last.noise[1]
          IN /\ (IsFinite(mean) /\ IsFinite(var)) =>
                    last.out.v = Fin(mean.v + (var.v * epsilon.v) \div 100)
             /\ (epsilon = Zero /\ IsFinite(var) /\ mean # NaN) => last.out.v = mean
             /\ (epsilon = Zero /\ ~IsFinite(var)) => last.out.v = NaN
    /\ (last.op \in {"forward", "interpolate"}) =>
          /\ Len(last.stds) = Len(last.noise)
          /\ \A i \in DOMAIN last.stds :
                last.stds[i].v = Exp(FMul(Half, last.dist[i].log_var.v))

C10_Witness ==
    /\ last.op = "reparameterization"
    /\ last.noise[1] = Zero
    /\ last.args[1].v = One
    /\ last.args[2].v = Fin(165)
    /\ last.out.v = One

====
